---- MODULE Spec2Model ----
(***************************************************************************)
(* State-machine model of the scheduling layer of Cosik:                   *)
(*   src/src/tasks/task_queue.py   (AdvancedTaskQueue, Task)               *)
(*   src/src/tasks/workflow_orchestrator.py   (WorkflowOrchestrator)       *)
(*                                                                         *)
(* asyncio is cooperative: a coroutine runs without interruption between   *)
(* two suspension points (an await that really suspends).  Every action    *)
(* below is the code between two suspension points of one coroutine: the   *)
(* process_queue driver, one execute_task unit spawned by create_task, or  *)
(* a caller's add_task / cancel_task / clear_completed (none of which      *)
(* suspends: put on an unbounded queue returns at once).                   *)
(*                                                                         *)
(* Task ids are strings in the code; here an id is the sequence of its     *)
(* characters' digits (<<1,0>> is "10"), compared as Python compares       *)
(* strings.  Task.dependencies is a list in the code, read only through    *)
(* membership and iteration, and is a set here.  The fields intent,        *)
(* parameters, tags, result, error and the timestamps are never read by    *)
(* the scheduler and are left out.                                         *)
(*                                                                         *)
(* The orchestrator does not use the queue: its state is a second group    *)
(* of variables, which the queue's actions leave alone, and the other way  *)
(* round.  A workflow task spec is [index, dependencies]; dependencies is  *)
(* a list in the code, read only through iteration, and is a set here.     *)
(***************************************************************************)
EXTENDS Integers, Sequences, FiniteSets, TLC

\* ---------------------------------------------------------------- bounds
\* add_task calls in one behaviour
MaxAdds == 2
\* executions spawned by process_queue in one behaviour
MaxSpawns == 3
\* largest max_concurrent a queue is constructed with
MaxConcurrent == 1
\* largest Task.max_retries a caller passes
MaxRetries == 2
\* largest number of entries in Task.dependencies
MaxDeps == 1
\* TaskPriority values a caller passes: 1 .. NumPriorities (HIGH, NORMAL, ...)
NumPriorities == 2
\* largest number of entries in Task.dependencies in a dependency graph
GraphMaxDeps == 2

\* longest task list given to execute_workflow
MaxTasks == 3
\* largest number of entries in a workflow task's dependencies
WorkflowMaxDeps == 2
\* largest workflow.max_parallel
MaxParallel == 2
\* largest workflow.max_retries
WorkflowMaxRetries == 1
\* longest task list given to _compute_dependency_levels directly, and the
\* number of different index values in it
LevelMaxTasks == 4
\* largest number of tasks of a workflow run by the adaptive strategy
AdaptiveMaxTasks == 6

\* task ids "10" and "2": "10" < "2" as strings, though 2 < 10 as numbers
Ids == {<<1, 0>>, <<2>>}

Priorities == 1..NumPriorities

\* dependency lists a caller gives task id: other ids, stored or not
DepSets(id) == {D \in SUBSET (Ids \ {id}) : Cardinality(D) <= MaxDeps}

\* the ids of a dependency graph of three tasks, and the dependency lists in it
GraphIds == Ids \cup {<<3>>}

GraphDepSets(id) == {D \in SUBSET (GraphIds \ {id}) : Cardinality(D) <= GraphMaxDeps}

VARIABLES
    max_concurrent,    \* AdvancedTaskQueue.max_concurrent
    persist_path,      \* TRUE iff a persist path is configured
    on_task_complete,  \* TRUE iff a (suspending) on_task_complete callback is set
    unique_ids,        \* TRUE iff the callers never give add_task an id a second time
    objs,              \* id -> the Task objects add_task was given under that id, in order
    tasks,             \* self.tasks: id -> which of objs[id] is stored (a Task is mutable)
    pending_queue,     \* self.pending_queue: the heap of (priority, id), kept in pop order
    running_tasks,     \* self.running_tasks
    completed_tasks,   \* self.completed_tasks
    dependents,        \* self.dependents (defaultdict(set))
    task_futures,      \* self.task_futures: id -> number of the execution unit
    execs,             \* unfinished execute_task units: number -> [id, obj, stage]
    nspawn,            \* execution units created so far
    pc,                \* position of the process_queue coroutine
    got,               \* the id the driver's get returned, <<>> when it holds none
    snapshot,          \* the persisted JSON document
    wconfig,           \* the orchestrator's max_parallel, retry_failed, max_retries and
                       \* config value workflow.continue_on_failure
    workflows,         \* the keys of WorkflowOrchestrator.workflows
    workflow,          \* the workflow dict execute_workflow made: [tasks, strategy, status],
                       \* and run_by, the strategy function that runs it
    frame,             \* the locals of the running _execute_sequential / _execute_parallel
    active,            \* unfinished _execute_single_task calls: index -> [attempt, stage, all_raised, result]
    returned,          \* what execute_workflow returned, <<>> before
    invocations,       \* index -> number of executor.execute calls made for the task
    sleeps,            \* index -> the arguments of the asyncio.sleep calls made for the task
    leveler            \* a direct call of _compute_dependency_levels: [tasks, returned, levels]

vars == <<max_concurrent, persist_path, on_task_complete, unique_ids, objs, tasks, pending_queue,
          running_tasks, completed_tasks, dependents, task_futures, execs, nspawn,
          pc, got, snapshot,
          wconfig, workflows, workflow, frame, active, returned, invocations, sleeps,
          leveler>>

config == <<max_concurrent, persist_path, on_task_complete, unique_ids>>

\* the state of the orchestrator, and the state of the queue
orchestrator == <<wconfig, workflows, workflow, frame, active, returned, invocations, sleeps,
          leveler>>

queue == <<config, objs, tasks, pending_queue, running_tasks, completed_tasks, dependents,
           task_futures, execs, nspawn, pc, got, snapshot>>

\* ------------------------------------------------------------- helpers
\* the Task object self.tasks[id]
T(id) == objs[id][tasks[id]]

\* add_task calls so far
RECURSIVE SumLen(_, _)
SumLen(f, S) ==
    IF S = {} THEN 0
    ELSE LET x == CHOOSE y \in S : TRUE IN Len(f[x]) + SumLen(f, S \ {x})

NumAdds == SumLen(objs, GraphIds)

\* Python's str < str on ids
RECURSIVE StrLess(_, _)
StrLess(s, t) ==
    IF s = <<>> THEN t # <<>>
    ELSE IF t = <<>> THEN FALSE
    ELSE IF Head(s) # Head(t) THEN Head(s) < Head(t)
    ELSE StrLess(Tail(s), Tail(t))

\* (mutant of EntryLess: entries of one priority keep their arrival order)
EntryLessByPriority(e, f) == e[1] < f[1]

\* Python's tuple < tuple on (priority, id): what heapq orders the queue by
EntryLess(e, f) == e[1] < f[1] \/ (e[1] = f[1] /\ StrLess(e[2], f[2]))

\* PriorityQueue.put_nowait: heappush; the sequence lists the entries in pop order
RECURSIVE QueuePut(_, _)
QueuePut(q, e) ==
    IF q = <<>> THEN <<e>>
    ELSE IF EntryLess(e, Head(q)) THEN <<e>> \o q
    ELSE <<Head(q)>> \o QueuePut(Tail(q), e)

\* the document of a queue that never persisted
NoDocument == [tasks |-> <<>>, completed_tasks |-> {}]

\* (mutant of _can_execute: a dependency that is merely stored counts as met)
_can_execute_stored(t, c) == \A d \in t.dependencies : d \in c \/ d \in DOMAIN tasks

\* _can_execute(task), reading the completed set c
_can_execute(t, c) == \A d \in t.dependencies : d \in c

\* ---------------------------------------------------------------- Init
NoFrame == [fn |-> "none"]

NoCall == [tasks |-> <<>>, returned |-> FALSE, levels |-> <<>>]

\* WorkflowOrchestrator.__init__ with an empty config (the defaults), and no call yet
OrchestratorIdle ==
    /\ wconfig = [max_parallel |-> 3, retry_failed |-> TRUE, max_retries |-> 2,
                  continue_on_failure |-> FALSE]
    /\ workflows = {}
    /\ workflow = <<>>
    /\ frame = NoFrame
    /\ active = <<>>
    /\ returned = <<>>
    /\ invocations = <<>>
    /\ sleeps = <<>>
    /\ leveler = NoCall

\* AdvancedTaskQueue.__init__ with the defaults persist_path = None and
\* on_task_complete = None, used by callers that keep task ids unique
Init ==
    /\ max_concurrent \in 1..MaxConcurrent
    /\ persist_path = FALSE
    /\ on_task_complete = FALSE
    /\ unique_ids = TRUE
    /\ objs = [i \in GraphIds |-> <<>>]
    /\ tasks = <<>>
    /\ pending_queue = <<>>
    /\ running_tasks = {}
    /\ completed_tasks = {}
    /\ dependents = [i \in GraphIds |-> {}]
    /\ task_futures = <<>>
    /\ execs = <<>>
    /\ nspawn = 0
    /\ pc = "idle"
    /\ got = <<>>
    /\ snapshot = NoDocument
    /\ OrchestratorIdle

\* ------------------------------------------------------------ add_task
\* what _persist_state writes: the document if a path is configured (Task.to_dict
\* of every stored task and the completed set; history fields are not part of it)
_persist_state(tk, ob, ct) ==
    IF persist_path
    THEN [tasks |-> [i \in DOMAIN tk |->
                        LET t == ob[i][tk[i]]
                        IN [priority |-> t.priority, dependencies |-> t.dependencies,
                            timeout |-> t.timeout, status |-> t.status,
                            retry_count |-> t.retry_count,
                            max_retries |-> t.max_retries]],
          completed_tasks |-> ct]
    ELSE snapshot

\* a Task as a caller constructs it: status PENDING and retry_count 0 are the
\* dataclass defaults.  invocations (executor calls), raised (executor calls that
\* raised) and cancelled_at (PENDING or RUNNING if cancel_task returned True for it
\* in that status, INCOMPLETE if it did when the id was not in the completed set)
\* are history, not fields
NewTask(id, p, D, to, mr) ==
    [id |-> id, priority |-> p, dependencies |-> D, timeout |-> to,
     status |-> "PENDING", retry_count |-> 0, max_retries |-> mr,
     invocations |-> 0, raised |-> 0, cancelled_at |-> {}]

add_task(id, p, D, to, mr) ==
    /\ LET t == NewTask(id, p, D, to, mr)
           ob == [objs EXCEPT ![id] = Append(@, t)]
           tk == (id :> Len(ob[id])) @@ tasks
       IN /\ objs' = ob
          /\ tasks' = tk
          /\ dependents' = [d \in GraphIds |-> IF d \in D THEN dependents[d] \cup {id}
                                          ELSE dependents[d]]
          /\ pending_queue' = IF _can_execute(t, completed_tasks)
                              THEN QueuePut(pending_queue, <<p, id>>)
                              ELSE pending_queue
          /\ snapshot' = _persist_state(tk, ob, completed_tasks)
    /\ UNCHANGED <<config, orchestrator, running_tasks, completed_tasks, task_futures, execs, nspawn, pc, got>>

\* --------------------------------------------------------- cancel_task
\* the stages in which wait_for holds the settled outcome of the executor
Settled == {"returned", "raised", "raisedTimeout"}

\* task_futures[id].cancel(): a unit not yet started never runs; a unit suspended
\* in the executor (or in the callback) gets CancelledError at its await, which
\* neither except clause of execute_task catches, so only its finally runs
\* (_persist_state, which returns at once when no path is configured).  A unit
\* whose wait_for already holds the executor's outcome is not stopped: wait_for
\* (Python 3.11 and earlier) catches the CancelledError and delivers the outcome
CancelFuture(ex, n) ==
    IF n \notin DOMAIN ex \/ ex[n].stage \in Settled THEN ex
    ELSE IF ex[n].stage = "spawned" \/ ~persist_path THEN [k \in DOMAIN ex \ {n} |-> ex[k]]
    ELSE [ex EXCEPT ![n].stage = "cancelled"]

\* self.running_tasks.discard(task_id) of the running branch
CancelDiscard(r, id) == r \ {id}

\* the branch cancel_task takes
CancelBranch(id) ==
    IF id \notin DOMAIN tasks THEN "unknown"
    ELSE IF T(id).status = "PENDING" THEN "pending"
    ELSE IF id \in DOMAIN task_futures THEN "future"
    ELSE "none"

\* the value cancel_task returns
CancelReturns(id) == CancelBranch(id) \in {"pending", "future"}

\* a call that changes nothing (an unknown id, a task already CANCELLED) is a
\* stuttering step
cancel_task(id) ==
    LET br == CancelBranch(id)
        facts == ({T(id).status} \cap {"PENDING", "RUNNING"})
                 \cup (IF id \in completed_tasks THEN {} ELSE {"INCOMPLETE"})
    IN /\ CancelReturns(id)
       /\ T(id).status = "CANCELLED" =>
             br = "future" /\ (id \in running_tasks \/ task_futures[id] \in DOMAIN execs)
       /\ objs' = [objs EXCEPT ![id][tasks[id]].status = "CANCELLED",
                               ![id][tasks[id]].cancelled_at = @ \cup facts]
       /\ execs' = IF br = "future" THEN CancelFuture(execs, task_futures[id]) ELSE execs
       /\ running_tasks' = IF br = "future" THEN CancelDiscard(running_tasks, id)
                           ELSE running_tasks
       /\ UNCHANGED <<config, orchestrator, tasks, pending_queue, completed_tasks, dependents,
                      task_futures, nspawn, pc, got, snapshot>>

\* ----------------------------------------------------- clear_completed
\* (a call that finds nothing to remove is a stuttering step)
clear_completed ==
    LET to_remove == {i \in DOMAIN tasks : T(i).status = "COMPLETED"}
    IN /\ to_remove # {}
       /\ tasks' = [i \in DOMAIN tasks \ to_remove |-> tasks[i]]
       /\ completed_tasks' = completed_tasks \ to_remove
       /\ UNCHANGED <<config, orchestrator, objs, pending_queue, running_tasks, dependents,
                      task_futures, execs, nspawn, pc, got, snapshot>>

\* ------------------------------------------------------ get_queue_stats
get_queue_stats ==
    [total_tasks |-> Cardinality(DOMAIN tasks),
     pending |-> Cardinality({i \in DOMAIN tasks : T(i).status = "PENDING"}),
     running |-> Cardinality(running_tasks),
     completed |-> Cardinality(completed_tasks),
     failed |-> Cardinality({i \in DOMAIN tasks : T(i).status = "FAILED"}),
     queue_size |-> Len(pending_queue),
     max_concurrent |-> max_concurrent]

\* -------------------------------------------------------- execute_task
\* the unit n is done: its future stays in task_futures, its coroutine is gone
Finish(n) == [k \in DOMAIN execs \ {n} |-> execs[k]]

\* lines 181-189, run when the event loop first steps the unit create_task made;
\* the unit keeps the Task object it finds in self.tasks now
ExecStart(n) ==
    /\ n \in DOMAIN execs
    /\ execs[n].stage = "spawned"
    /\ LET id == execs[n].id
       IN IF id \notin DOMAIN tasks
          THEN \* raise ValueError, before the try: no finally
               /\ execs' = Finish(n)
               /\ UNCHANGED <<objs, running_tasks>>
          ELSE /\ objs' = [objs EXCEPT ![id][tasks[id]].status = "RUNNING",
                                       ![id][tasks[id]].invocations = @ + 1]
               /\ running_tasks' = running_tasks \cup {id}
               /\ execs' = [execs EXCEPT ![n].stage = "executor", ![n].obj = tasks[id]]
    /\ UNCHANGED <<config, orchestrator, tasks, pending_queue, completed_tasks, dependents,
                   task_futures, nspawn, pc, got, snapshot>>

\* (mutant of _check_dependent_tasks: every PENDING dependent is put, ready or not)
RECURSIVE PutPending(_, _, _)
PutPending(q, S, ob) ==
    IF S = {} THEN q
    ELSE LET d == CHOOSE x \in S : TRUE
             ok == d \in DOMAIN tasks /\ ob[d][tasks[d]].status = "PENDING"
         IN PutPending(IF ok THEN QueuePut(q, <<ob[d][tasks[d]].priority, d>>) ELSE q,
                       S \ {d}, ob)

_check_dependent_tasks_pending(q, id, ob, ct) == PutPending(q, dependents[id], ob)

\* _check_dependent_tasks: the queue after putting every dependent in S that is
\* stored, PENDING and executable
RECURSIVE PutReady(_, _, _, _)
PutReady(q, S, ob, ct) ==
    IF S = {} THEN q
    ELSE LET d == CHOOSE x \in S : TRUE
             ok == /\ d \in DOMAIN tasks
                   /\ ob[d][tasks[d]].status = "PENDING"
                   /\ _can_execute(ob[d][tasks[d]], ct)
         IN PutReady(IF ok THEN QueuePut(q, <<ob[d][tasks[d]].priority, d>>) ELSE q,
                     S \ {d}, ob, ct)

_check_dependent_tasks(q, id, ob, ct) == PutReady(q, dependents[id], ob, ct)

\* lines 204-206: the executor returned
OnSuccess(t) == [t EXCEPT !.status = "COMPLETED"]

\* lines 233-235: the handler of "except Exception"
OnFailure(t) == [t EXCEPT !.status = "FAILED", !.retry_count = @ + 1]

\* (mutant of RetryAllowed: a failed task is always retried)
RetryAlways(t) == TRUE

\* (mutant of RetryAllowed: the comparison includes the bound)
RetryAllowedInclusive(t) == t.retry_count <= t.max_retries

\* line 241: retry if allowed
RetryAllowed(t) == t.retry_count < t.max_retries

\* lines 243-244: the retried task, and the entry put back in the queue
OnRetry(t) == [t EXCEPT !.status = "PENDING"]

RetryEntry(t) == <<t.priority, t.id>>

\* (mutant of OnTimeout: a timeout counts as a failed attempt)
OnTimeoutCounted(t) == [t EXCEPT !.status = "TIMEOUT", !.retry_count = @ + 1]

\* line 222: the handler of "except asyncio.TimeoutError"
OnTimeout(t) == [t EXCEPT !.status = "TIMEOUT"]

\* lines 195-199: the executor of a task with a timeout runs under wait_for, as
\* a task of its own (Python 3.11 and earlier); when it returns or raises, the
\* unit resumes with that outcome one loop iteration later
WaitForSettles(n) ==
    /\ n \in DOMAIN execs
    /\ execs[n].stage = "executor"
    /\ objs[execs[n].id][execs[n].obj].timeout
    /\ \E outcome \in Settled : execs' = [execs EXCEPT ![n].stage = outcome]
    /\ UNCHANGED <<config, orchestrator, objs, tasks, pending_queue, running_tasks, completed_tasks,
                   dependents, task_futures, nspawn, pc, got, snapshot>>

\* the unit n resumes with the given outcome of its executor: directly if the
\* task has no timeout, from wait_for if it has one
Resumes(n, outcome) ==
    /\ n \in DOMAIN execs
    /\ \/ execs[n].stage = "executor" /\ ~objs[execs[n].id][execs[n].obj].timeout
       \/ execs[n].stage = outcome

\* running_tasks.remove(task_id) raises KeyError when the id is not in the set;
\* raised inside an except handler it leaves execute_task through the finally

\* the executor returned: lines 203-219
ExecSucceed(n) ==
    /\ Resumes(n, "returned")
    /\ LET id == execs[n].id
           o == execs[n].obj
           done == [objs EXCEPT ![id][o] = OnSuccess(@)]
       IN IF id \in running_tasks
          THEN LET ct == completed_tasks \cup {id}
               IN /\ objs' = done
                  /\ running_tasks' = running_tasks \ {id}
                  /\ completed_tasks' = ct
                  /\ IF on_task_complete
                     THEN \* await self.on_task_complete(task) suspends
                          /\ execs' = [execs EXCEPT ![n].stage = "callback"]
                          /\ UNCHANGED <<pending_queue, snapshot>>
                     ELSE /\ pending_queue' = _check_dependent_tasks(pending_queue, id, done, ct)
                          /\ execs' = Finish(n)
                          /\ snapshot' = _persist_state(tasks, done, ct)
          ELSE \* remove raises KeyError, caught by "except Exception", whose own
               \* remove raises it again
               /\ objs' = [done EXCEPT ![id][o] = OnFailure(@)]
               /\ execs' = Finish(n)
               /\ snapshot' = _persist_state(tasks, objs', completed_tasks)
               /\ UNCHANGED <<pending_queue, running_tasks, completed_tasks>>
    /\ UNCHANGED <<config, orchestrator, tasks, dependents, task_futures, nspawn, pc, got>>

\* on_task_complete returned: lines 216-219 and the finally
CallbackReturn(n) ==
    /\ n \in DOMAIN execs
    /\ execs[n].stage = "callback"
    /\ pending_queue' = _check_dependent_tasks(pending_queue, execs[n].id, objs,
                                               completed_tasks)
    /\ execs' = Finish(n)
    /\ snapshot' = _persist_state(tasks, objs, completed_tasks)
    /\ UNCHANGED <<config, orchestrator, objs, tasks, running_tasks, completed_tasks, dependents,
                   task_futures, nspawn, pc, got>>

\* wait_for's timer ended the executor of a task with a timeout, or the
\* executor itself raised TimeoutError: lines 221-230.  A remove that raises
\* KeyError leaves the handler, and the status stays TIMEOUT
ExecTimeout(n) ==
    /\ n \in DOMAIN execs
    /\ \/ execs[n].stage = "executor" /\ objs[execs[n].id][execs[n].obj].timeout
       \/ Resumes(n, "raisedTimeout")
    /\ LET id == execs[n].id
           o == execs[n].obj
       IN /\ objs' = [objs EXCEPT ![id][o] = OnTimeout(@)]
          /\ running_tasks' = running_tasks \ {id}
          /\ execs' = Finish(n)
          /\ snapshot' = _persist_state(tasks, objs', completed_tasks)
    /\ UNCHANGED <<config, orchestrator, tasks, pending_queue, completed_tasks, dependents,
                   task_futures, nspawn, pc, got>>

\* the executor raised another exception: lines 232-249
ExecFail(n) ==
    /\ Resumes(n, "raised")
    /\ LET id == execs[n].id
           o == execs[n].obj
           t == OnFailure([objs[id][o] EXCEPT !.raised = @ + 1])
           retry == id \in running_tasks /\ RetryAllowed(t)
       IN /\ objs' = [objs EXCEPT ![id][o] = IF retry THEN OnRetry(t) ELSE t]
          /\ running_tasks' = running_tasks \ {id}
          /\ pending_queue' = IF retry THEN QueuePut(pending_queue, RetryEntry(t))
                              ELSE pending_queue
          /\ execs' = Finish(n)
          /\ snapshot' = _persist_state(tasks, objs', completed_tasks)
    /\ UNCHANGED <<config, orchestrator, tasks, completed_tasks, dependents, task_futures, nspawn, pc, got>>

\* CancelledError reaches a cancelled unit at its await: only the finally runs
ExecCancelled(n) ==
    /\ n \in DOMAIN execs
    /\ execs[n].stage = "cancelled"
    /\ execs' = Finish(n)
    /\ snapshot' = _persist_state(tasks, objs, completed_tasks)
    /\ UNCHANGED <<config, orchestrator, objs, tasks, pending_queue, running_tasks, completed_tasks,
                   dependents, task_futures, nspawn, pc, got>>

\* ------------------------------------------------------- process_queue
\* a caller starts the driver (one driver at a time)
process_queue ==
    /\ pc = "idle"
    /\ pc' = "check"
    /\ UNCHANGED <<config, orchestrator, objs, tasks, pending_queue, running_tasks, completed_tasks,
                   dependents, task_futures, execs, nspawn, got, snapshot>>

\* lines 275-276: the driver leaves the wait loop (while it sleeps, nothing changes)
DriverMayProceed == Cardinality(running_tasks) < max_concurrent

DriverCheck ==
    /\ pc = "check"
    /\ DriverMayProceed
    /\ pc' = "get"
    /\ UNCHANGED <<config, orchestrator, objs, tasks, pending_queue, running_tasks, completed_tasks,
                   dependents, task_futures, execs, nspawn, got, snapshot>>

\* lines 279-283: the get returns the first entry.  wait_for (Python 3.11 and
\* earlier) runs the get as a task of its own, so the driver resumes with the
\* entry one loop iteration after the entry left the queue
DriverGet ==
    /\ pc = "get"
    /\ pending_queue # <<>>
    /\ nspawn < MaxSpawns
    /\ pending_queue' = Tail(pending_queue)
    /\ got' = Head(pending_queue)[2]
    /\ pc' = "got"
    /\ UNCHANGED <<config, orchestrator, objs, tasks, running_tasks, completed_tasks, dependents,
                   task_futures, execs, nspawn, snapshot>>

\* lines 291-297: whether the driver skips the id it holds
DriverSkips(id) ==
    \/ id \in completed_tasks
    \/ id \notin DOMAIN tasks
    \/ T(id).status = "CANCELLED"

\* lines 291-301: the driver resumes with the entry, skips it or creates its unit
DriverSpawn ==
    /\ pc = "got"
    /\ IF DriverSkips(got)
       THEN UNCHANGED <<task_futures, execs, nspawn>>
       ELSE /\ nspawn' = nspawn + 1
            /\ execs' = (nspawn' :> [id |-> got, obj |-> 0, stage |-> "spawned"]) @@ execs
            /\ task_futures' = (got :> nspawn') @@ task_futures
    /\ got' = <<>>
    /\ pc' = "check"
    /\ UNCHANGED <<config, orchestrator, objs, tasks, pending_queue, running_tasks, completed_tasks,
                   dependents, snapshot>>

\* (mutant of DriverMayReturn: the driver does not look at the running set)
DriverMayReturnOnEmptyQueue == pending_queue = <<>>

\* line 286: the driver leaves its loop
DriverMayReturn == pending_queue = <<>> /\ running_tasks = {}

\* lines 284-289: the get timed out after 1 s on an empty queue.  A unit that is
\* ready to run (just created, or resuming with its executor's outcome or with a
\* cancellation) is stepped in the loop's next iteration, long before the second
\* ends
DriverTimeout ==
    /\ pc = "get"
    /\ pending_queue = <<>>
    /\ \A n \in DOMAIN execs : execs[n].stage \in {"executor", "callback"}
    /\ pc' = IF DriverMayReturn THEN "idle" ELSE "check"
    /\ got' = <<>>
    /\ UNCHANGED <<config, orchestrator, objs, tasks, pending_queue, running_tasks, completed_tasks,
                   dependents, task_futures, execs, nspawn, snapshot>>

\* ---------------------------------------------------------------- Next
Next ==
    \/ /\ NumAdds < MaxAdds
       /\ \E id \in Ids :
             /\ unique_ids => objs[id] = <<>>
             /\ \E p \in Priorities, to \in BOOLEAN, mr \in 0..MaxRetries, D \in DepSets(id) :
                   add_task(id, p, D, to, mr)
    \/ \E id \in Ids : cancel_task(id)
    \/ clear_completed
    \/ process_queue
    \/ DriverCheck
    \/ DriverGet
    \/ DriverSpawn
    \/ DriverTimeout
    \/ \E n \in 1..MaxSpawns : ExecStart(n)
    \/ \E n \in 1..MaxSpawns : WaitForSettles(n)
    \/ \E n \in 1..MaxSpawns : ExecSucceed(n)
    \/ \E n \in 1..MaxSpawns : ExecTimeout(n)
    \/ \E n \in 1..MaxSpawns : ExecFail(n)

Spec == Init /\ [][Next]_vars

\* ------------------------------------------------ a queue that persists
\* AdvancedTaskQueue.__init__ with a persist path at which no file exists yet
InitPersist ==
    /\ max_concurrent \in 1..MaxConcurrent
    /\ persist_path = TRUE
    /\ on_task_complete = FALSE
    /\ unique_ids = TRUE
    /\ objs = [i \in GraphIds |-> <<>>]
    /\ tasks = <<>>
    /\ pending_queue = <<>>
    /\ running_tasks = {}
    /\ completed_tasks = {}
    /\ dependents = [i \in GraphIds |-> {}]
    /\ task_futures = <<>>
    /\ execs = <<>>
    /\ nspawn = 0
    /\ pc = "idle"
    /\ got = <<>>
    /\ snapshot = NoDocument
    /\ OrchestratorIdle

\* the callers add tasks without a timeout, all of one priority
PersistAdd(id, D, mr) ==
    /\ NumAdds < MaxAdds
    /\ objs[id] = <<>>
    /\ add_task(id, 1, D, FALSE, mr)

PersistNext ==
    \/ \E id \in Ids : \E mr \in 0..MaxRetries, D \in DepSets(id) : PersistAdd(id, D, mr)
    \/ \E id \in Ids : cancel_task(id)
    \/ clear_completed
    \/ process_queue
    \/ DriverCheck
    \/ DriverGet
    \/ DriverSpawn
    \/ DriverTimeout
    \/ \E n \in 1..MaxSpawns : ExecStart(n)
    \/ \E n \in 1..MaxSpawns : ExecSucceed(n)
    \/ \E n \in 1..MaxSpawns : ExecTimeout(n)
    \/ \E n \in 1..MaxSpawns : ExecFail(n)
    \/ \E n \in 1..MaxSpawns : ExecCancelled(n)

SpecPersist == InitPersist /\ [][PersistNext]_vars

\* ------------------------------------------ a queue that is restarted
\* Task.from_dict (lines 70-82) of a task of the document: a new Task object
\* with the persisted fields, and no history
FromDict(id, d) ==
    [id |-> id, priority |-> d.priority, dependencies |-> d.dependencies,
     timeout |-> d.timeout, status |-> d.status, retry_count |-> d.retry_count,
     max_retries |-> d.max_retries, invocations |-> 0, raised |-> 0, cancelled_at |-> {}]

\* lines 397-418: what _load_state reads from the document: the task map and the
\* completed set (no file, FileNotFoundError: the empty document)
_load_state(doc) ==
    [objs |-> [i \in GraphIds |-> IF i \in DOMAIN doc.tasks
                                   THEN <<FromDict(i, doc.tasks[i])>> ELSE <<>>],
     tasks |-> [i \in DOMAIN doc.tasks |-> 1],
     completed_tasks |-> doc.completed_tasks]

\* the process ends, whatever it was doing, and a new one constructs the queue
\* with the same persist path: __init__ (lines 97-128) makes every collection
\* empty and _load_state fills the task map and the completed set
Restart ==
    /\ persist_path
    /\ LET st == _load_state(snapshot)
       IN /\ objs' = st.objs
          /\ tasks' = st.tasks
          /\ completed_tasks' = st.completed_tasks
    /\ pending_queue' = <<>>
    /\ running_tasks' = {}
    /\ dependents' = [i \in GraphIds |-> {}]
    /\ task_futures' = <<>>
    /\ execs' = <<>>
    /\ pc' = "idle"
    /\ got' = <<>>
    /\ UNCHANGED <<config, orchestrator, nspawn, snapshot>>

RestartNext ==
    \/ \E id \in Ids : \E mr \in 0..MaxRetries, D \in DepSets(id) : PersistAdd(id, D, mr)
    \/ Restart
    \/ process_queue
    \/ DriverCheck
    \/ DriverGet
    \/ DriverSpawn
    \/ DriverTimeout
    \/ \E n \in 1..MaxSpawns : ExecStart(n)
    \/ \E n \in 1..MaxSpawns : ExecSucceed(n)
    \/ \E n \in 1..MaxSpawns : ExecFail(n)

SpecRestart == InitPersist /\ [][RestartNext]_vars

\* ------------------------------------ a queue with a completion callback
\* AdvancedTaskQueue.__init__ with the defaults, then on_task_complete set to a
\* coroutine function that suspends; the callers may give add_task an id again
InitCallback ==
    /\ max_concurrent \in 1..MaxConcurrent
    /\ persist_path = FALSE
    /\ on_task_complete = TRUE
    /\ unique_ids = FALSE
    /\ objs = [i \in GraphIds |-> <<>>]
    /\ tasks = <<>>
    /\ pending_queue = <<>>
    /\ running_tasks = {}
    /\ completed_tasks = {}
    /\ dependents = [i \in GraphIds |-> {}]
    /\ task_futures = <<>>
    /\ execs = <<>>
    /\ nspawn = 0
    /\ pc = "idle"
    /\ got = <<>>
    /\ snapshot = NoDocument
    /\ OrchestratorIdle

\* a caller, or the callback, adds a task without a timeout, of the one priority
CallbackAdd(id, D, mr) ==
    /\ NumAdds < MaxAdds
    /\ add_task(id, 1, D, FALSE, mr)

CallbackNext ==
    \/ \E id \in Ids : \E mr \in 0..MaxRetries, D \in DepSets(id) : CallbackAdd(id, D, mr)
    \/ process_queue
    \/ DriverCheck
    \/ DriverGet
    \/ DriverSpawn
    \/ DriverTimeout
    \/ \E n \in 1..MaxSpawns : ExecStart(n)
    \/ \E n \in 1..MaxSpawns : ExecSucceed(n)
    \/ \E n \in 1..MaxSpawns : ExecFail(n)
    \/ \E n \in 1..MaxSpawns : CallbackReturn(n)

SpecCallback == InitCallback /\ [][CallbackNext]_vars

\* ------------------------------------------- executors that always end
\* invocations a task of the given max_retries can get: one, and one more for
\* each failure after which retry_count is still below max_retries (line 241)
Attempts(mr) == IF mr > 1 THEN mr ELSE 1

RECURSIVE SumAttempts(_)
SumAttempts(S) ==
    IF S = {} THEN 0
    ELSE LET x == CHOOSE y \in S : TRUE
         IN Attempts(T(x).max_retries) + SumAttempts(S \ {x})

\* the callers add tasks, before or while the driver runs, that need no more
\* than MaxSpawns executions in all
LiveAdd(id, p, D, to, mr) ==
    /\ NumAdds < MaxAdds
    /\ objs[id] = <<>>
    /\ SumAttempts(DOMAIN tasks) + Attempts(mr) <= MaxSpawns
    /\ add_task(id, p, D, to, mr)

LiveNext ==
    \/ \E id \in Ids : \E p \in Priorities, to \in BOOLEAN, mr \in 0..MaxRetries, D \in DepSets(id) :
          LiveAdd(id, p, D, to, mr)
    \/ process_queue
    \/ DriverCheck
    \/ DriverGet
    \/ DriverSpawn
    \/ DriverTimeout
    \/ \E n \in 1..MaxSpawns : ExecStart(n)
    \/ \E n \in 1..MaxSpawns : WaitForSettles(n)
    \/ \E n \in 1..MaxSpawns : ExecSucceed(n)
    \/ \E n \in 1..MaxSpawns : ExecTimeout(n)
    \/ \E n \in 1..MaxSpawns : ExecFail(n)

\* the event loop keeps stepping the driver and every unit that is ready, and
\* every executor invocation returns, raises or times out
LiveFairness ==
    /\ WF_vars(DriverCheck \/ DriverGet \/ DriverSpawn \/ DriverTimeout)
    /\ \A n \in 1..MaxSpawns :
          /\ WF_vars(ExecStart(n))
          /\ WF_vars(WaitForSettles(n) \/ ExecSucceed(n) \/ ExecTimeout(n) \/ ExecFail(n))

SpecLive == Init /\ [][LiveNext]_vars /\ LiveFairness

\* ------------------------------------------ a dependency graph, run once
\* every dependency of a stored task names a stored task
GraphClosed == \A i \in DOMAIN tasks : T(i).dependencies \subseteq DOMAIN tasks

\* the ids reached from the set S along at most k dependency edges
RECURSIVE DepsWithin(_, _)
DepsWithin(S, k) ==
    IF k = 0 THEN S
    ELSE DepsWithin(S \cup UNION {T(i).dependencies : i \in S \cap DOMAIN tasks}, k - 1)

\* no stored task depends on itself, directly or through others
GraphAcyclic ==
    \A i \in DOMAIN tasks : i \notin DepsWithin(T(i).dependencies, Cardinality(GraphIds))

\* the caller adds the tasks of the graph, in any order, before it runs the queue
GraphAdd(id, p, D) ==
    /\ pc = "idle"
    /\ nspawn = 0
    /\ objs[id] = <<>>
    /\ add_task(id, p, D, FALSE, MaxRetries)

\* the caller runs process_queue on the graph (of at least one task) it added
GraphStart ==
    /\ nspawn = 0
    /\ DOMAIN tasks # {}
    /\ GraphClosed
    /\ GraphAcyclic
    /\ process_queue

\* process_queue has run the graph and returned
GraphReturned == pc = "idle" /\ nspawn > 0

\* the executor always succeeds
GraphNext ==
    \/ \E id \in GraphIds : \E p \in Priorities, D \in GraphDepSets(id) : GraphAdd(id, p, D)
    \/ GraphStart
    \/ DriverCheck
    \/ DriverGet
    \/ DriverSpawn
    \/ DriverTimeout
    \/ \E n \in 1..MaxSpawns : ExecStart(n)
    \/ \E n \in 1..MaxSpawns : ExecSucceed(n)

SpecGraph == Init /\ [][GraphNext]_vars

\* the event loop keeps stepping the driver and every unit that is ready, and
\* every executor invocation returns
GraphFairness ==
    /\ WF_vars(DriverCheck \/ DriverGet \/ DriverSpawn \/ DriverTimeout)
    /\ \A n \in 1..MaxSpawns : WF_vars(ExecStart(n)) /\ WF_vars(ExecSucceed(n))

SpecGraphLive == SpecGraph /\ GraphFairness

\* ====================================================================
\* WorkflowOrchestrator
\* ====================================================================
\* a queue that is constructed and never used
QueueIdle ==
    /\ max_concurrent = 1
    /\ persist_path = FALSE
    /\ on_task_complete = FALSE
    /\ unique_ids = TRUE
    /\ objs = [i \in GraphIds |-> <<>>]
    /\ tasks = <<>>
    /\ pending_queue = <<>>
    /\ running_tasks = {}
    /\ completed_tasks = {}
    /\ dependents = [i \in GraphIds |-> {}]
    /\ task_futures = <<>>
    /\ execs = <<>>
    /\ nspawn = 0
    /\ pc = "idle"
    /\ got = <<>>
    /\ snapshot = NoDocument

Range(q) == {q[k] : k \in 1..Len(q)}

\* [t['index'] for t in q]
Indices(q) == [k \in 1..Len(q) |-> q[k].index]

\* ------------------------------------------- _compute_dependency_levels
\* (mutant of Qualifies: one processed dependency is enough)
QualifiesAny(t, processed) ==
    t.dependencies = {} \/ t.dependencies \cap processed # {}

\* line 322: all(dep in processed for dep in deps)
Qualifies(t, processed) == t.dependencies \subseteq processed

IsUnprocessed(t, processed) == t.index \notin processed

\* (mutant of Fallback: only the first unprocessed task is forced into the level)
FallbackFirst(ts, processed) ==
    SubSeq(Indices(SelectSeq(ts, LAMBDA t : IsUnprocessed(t, processed))), 1, 1)

\* lines 325-329: the level of a pass that found no qualifying task
Fallback(ts, processed) ==
    Indices(SelectSeq(ts, LAMBDA t : IsUnprocessed(t, processed)))

\* lines 312-329: one pass of the while loop gives one level; processed is not
\* updated during the pass
LevelPass(ts, processed) ==
    LET level == Indices(SelectSeq(ts, LAMBDA t : /\ IsUnprocessed(t, processed)
                                                  /\ Qualifies(t, processed)))
    IN IF level = <<>> THEN Fallback(ts, processed) ELSE level

\* lines 311-334: the while loop
RECURSIVE LevelLoop(_, _, _)
LevelLoop(ts, levels, processed) ==
    IF Cardinality(processed) < Len(ts)
    THEN LET level == LevelPass(ts, processed)
         IN LevelLoop(ts, Append(levels, level), processed \cup Range(level))
    ELSE levels

_compute_dependency_levels(ts) == LevelLoop(ts, <<>>, {})

\* task lists with distinct indices, in any order, with any dependencies
LevelIndices == 0..(LevelMaxTasks - 1)

LevelDepSets == {D \in SUBSET LevelIndices : Cardinality(D) <= WorkflowMaxDeps}

LevelTaskLists(n) ==
    {ts \in [1..n -> [index : LevelIndices, dependencies : LevelDepSets]] :
        \A j, k \in 1..n : j # k => ts[j].index # ts[k].index}

InitLevels ==
    /\ QueueIdle
    /\ wconfig = [max_parallel |-> 3, retry_failed |-> TRUE, max_retries |-> 2,
                  continue_on_failure |-> FALSE]
    /\ workflows = {}
    /\ workflow = <<>>
    /\ frame = NoFrame
    /\ active = <<>>
    /\ returned = <<>>
    /\ invocations = <<>>
    /\ sleeps = <<>>
    /\ \E n \in 0..LevelMaxTasks :
          leveler \in {[tasks |-> ts, returned |-> FALSE, levels |-> <<>>] :
                          ts \in LevelTaskLists(n)}

\* a caller calls orchestrator._compute_dependency_levels(tasks)
ComputeLevels ==
    /\ ~leveler.returned
    /\ leveler' = [leveler EXCEPT !.returned = TRUE,
                                  !.levels = _compute_dependency_levels(leveler.tasks)]
    /\ UNCHANGED <<queue, wconfig, workflows, workflow, frame, active, returned, invocations,
                   sleeps>>

SpecLevels == InitLevels /\ [][ComputeLevels]_vars

\* ------------------------------------------------------ execute_workflow
\* a description of n words: the code reads a description only through
\* len(desc.split()), and it is the sequence of its words here
Description(n) == [k \in 1..n |-> "word"]

\* the task lists a caller gives execute_workflow: a description ('Task 1' in the
\* tests) and a dependency list per task; index MaxTasks is the index of no task
WorkflowDepSets == {D \in SUBSET (0..MaxTasks) : Cardinality(D) <= WorkflowMaxDeps}

WorkflowTaskLists ==
    UNION {[1..n -> [description : {Description(2)}, dependencies : WorkflowDepSets]] :
              n \in 0..MaxTasks}

Strategies == {"sequential", "parallel"}

\* how one executor.execute call ends: it returns a result with success true,
\* returns one with success false, or raises
Outcomes == {"success", "failure", "raise"}

\* the configurations an orchestrator is constructed with
WorkflowConfigs ==
    [max_parallel : 1..MaxParallel, retry_failed : BOOLEAN,
     max_retries : {WorkflowMaxRetries}, continue_on_failure : BOOLEAN]

\* lines 114-124: the index of a task is its position in the list, from 0
_prepare_tasks(ts) ==
    [k \in 1..Len(ts) |-> [index |-> k - 1, description |-> ts[k].description,
                           dependencies |-> ts[k].dependencies]]

\* dict assignment d[k] = v
SetItem(d, k, v) == [x \in DOMAIN d \cup {k} |-> IF x = k THEN v ELSE d[x]]

\* (mutant of _dependencies_met: a dependency without a status counts as met)
_dependencies_met_lenient(t, status_map) ==
    \A d \in t.dependencies : d \in DOMAIN status_map => status_map[d] = "COMPLETED"

\* lines 290-303; status_map.get(dep_id, PENDING)
_dependencies_met(t, status_map) ==
    \A d \in t.dependencies :
       (IF d \in DOMAIN status_map THEN status_map[d] ELSE "PENDING") = "COMPLETED"

\* (mutant of WorkflowSuccess: a workflow without a failed task is a success)
WorkflowSuccessLenient(completed, failed) == failed = 0

\* line 95: result['completed'] > 0 and result['failed'] == 0
WorkflowSuccess(completed, failed) == completed > 0 /\ failed = 0

\* lines 90-112: execute_workflow returns the aggregate and forgets the workflow
WorkflowReturn(results, completed, failed) ==
    /\ returned' = [success |-> WorkflowSuccess(completed, failed), completed |-> completed,
                    failed |-> failed, results |-> results]
    /\ workflows' = {}
    /\ frame' = NoFrame
    /\ active' = <<>>

\* (mutant of EffectiveRetries: retry_failed is not read)
EffectiveRetriesAlways == wconfig.max_retries

\* line 256: max_retries if retry_failed else 0
EffectiveRetries == IF wconfig.retry_failed THEN wconfig.max_retries ELSE 0

\* ---------------------------------------------------- _execute_sequential
\* lines 134-141: the loop passes over the tasks whose dependencies are not met,
\* marking each SKIPPED, up to the first task it can execute or the end of the list
RECURSIVE SeqSkip(_, _, _)
SeqSkip(ts, status, pos) ==
    IF pos > Len(ts) \/ _dependencies_met(ts[pos], status)
    THEN [status |-> status, pos |-> pos]
    ELSE SeqSkip(ts, SetItem(status, ts[pos].index, "SKIPPED"), pos + 1)

\* an _execute_single_task call that has called the executor for the first time;
\* all_raised: every executor call made for it so far has raised
NewCall == [attempt |-> 0, stage |-> "running", all_raised |-> TRUE, result |-> <<>>]

\* the loop from list position pos on, up to its next suspension: it marks a task
\* RUNNING and calls _execute_single_task, which calls the executor (lines 144-145,
\* 258-261), or it ends and execute_workflow returns
SeqContinue(strategy, ts, status, pos, results, completed, failed, inv) ==
    LET r == SeqSkip(ts, status, pos)
    IN IF r.pos <= Len(ts)
       THEN LET i == ts[r.pos].index
            IN /\ workflow' = [tasks |-> ts, strategy |-> strategy, run_by |-> "sequential",
                               status |-> SetItem(r.status, i, "RUNNING")]
               /\ frame' = [fn |-> "sequential", pos |-> r.pos, results |-> results,
                            completed |-> completed, failed |-> failed]
               /\ active' = (i :> NewCall)
               /\ invocations' = [inv EXCEPT ![i] = @ + 1]
               /\ workflows' = {"w"}
               /\ returned' = returned
       ELSE /\ workflow' = [tasks |-> ts, strategy |-> strategy, run_by |-> "sequential",
                            status |-> r.status]
            /\ invocations' = inv
            /\ WorkflowReturn(results, completed, failed)

\* (mutant of StopsOnFailure: the loop never breaks)
StopsNever == FALSE

\* line 155: if not self.config.get('workflow.continue_on_failure', False)
StopsOnFailure == ~wconfig.continue_on_failure

\* lines 145-159: _execute_single_task returned for task i
SeqResult(i, result) ==
    LET ts == workflow.tasks
    IN IF result.success
       THEN SeqContinue(workflow.strategy, ts, SetItem(workflow.status, i, "COMPLETED"), frame.pos + 1,
                        SetItem(frame.results, i, result), frame.completed + 1,
                        frame.failed, invocations)
       ELSE IF StopsOnFailure
            THEN /\ workflow' = [workflow EXCEPT !.status = SetItem(@, i, "FAILED")]
                 /\ invocations' = invocations
                 /\ WorkflowReturn(frame.results, frame.completed, frame.failed + 1)
            ELSE SeqContinue(workflow.strategy, ts, SetItem(workflow.status, i, "FAILED"), frame.pos + 1,
                             SetItem(frame.results, i, result), frame.completed,
                             frame.failed + 1, invocations)

\* ------------------------------------------------------ _execute_parallel
Min(a, b) == IF a < b THEN a ELSE b

\* (mutant of BatchOf: only the first task of a batch is executed)
BatchFirst(level_tasks, i) == SubSeq(level_tasks, i + 1, i + 1)

\* (mutant of BatchOf: the whole rest of the level is one batch)
BatchRest(level_tasks, i) == SubSeq(level_tasks, i + 1, Len(level_tasks))

\* line 187: level_tasks[i:i + self.max_parallel]
BatchOf(level_tasks, i) ==
    SubSeq(level_tasks, i + 1, Min(i + wconfig.max_parallel, Len(level_tasks)))

\* lines 179-187: the next (level, i) of the two nested for loops that has a batch
RECURSIVE NextBatch(_, _, _)
NextBatch(levels, level, i) ==
    IF level > Len(levels) \/ i < Len(levels[level])
    THEN [level |-> level, i |-> i]
    ELSE NextBatch(levels, level + 1, 0)

\* the loops from (level, i) on, up to the next suspension: asyncio.gather makes a
\* task of every _execute_single_task of the batch (lines 190-193), each of which
\* calls the executor when first run; or the loops end and execute_workflow returns
ParContinue(strategy, ts, status, levels, level, i, results, completed, failed, inv) ==
    LET b == NextBatch(levels, level, i)
    IN /\ workflow' = [tasks |-> ts, strategy |-> strategy, run_by |-> "parallel",
                       status |-> status]
       /\ IF b.level <= Len(levels)
          THEN LET batch == BatchOf(levels[b.level], b.i)
               IN /\ frame' = [fn |-> "parallel", levels |-> levels, level |-> b.level,
                               i |-> b.i, batch |-> batch, results |-> results,
                               completed |-> completed, failed |-> failed]
                  /\ active' = [x \in Range(batch) |-> NewCall]
                  /\ invocations' = [x \in DOMAIN inv |->
                                        IF x \in Range(batch) THEN inv[x] + 1 ELSE inv[x]]
                  /\ workflows' = {"w"}
                  /\ returned' = returned
          ELSE /\ invocations' = inv
               /\ WorkflowReturn(results, completed, failed)

\* lines 196-211: the results of the batch, in the order of the batch
RECURSIVE BatchResults(_, _, _)
BatchResults(batch, k, acc) ==
    IF k > Len(batch)
    THEN acc
    ELSE LET x == batch[k]
             ok == active[x].result.success
         IN BatchResults(batch, k + 1,
               [status |-> SetItem(acc.status, x, IF ok THEN "COMPLETED" ELSE "FAILED"),
                results |-> SetItem(acc.results, x, active[x].result),
                completed |-> acc.completed + (IF ok THEN 1 ELSE 0),
                failed |-> acc.failed + (IF ok THEN 0 ELSE 1)])

\* gather has every result of the batch: _execute_parallel resumes
BatchDone ==
    /\ frame.fn = "parallel"
    /\ \A x \in DOMAIN active : active[x].stage = "done"
    /\ LET acc == BatchResults(frame.batch, 1,
                      [status |-> workflow.status, results |-> frame.results,
                       completed |-> frame.completed, failed |-> frame.failed])
       IN ParContinue(workflow.strategy, workflow.tasks, acc.status, frame.levels, frame.level,
                      frame.i + wconfig.max_parallel, acc.results, acc.completed,
                      acc.failed, invocations)
    /\ UNCHANGED <<queue, wconfig, sleeps, leveler>>

\* ------------------------------------------------- _execute_single_task
\* (mutant of SingleTaskResult: the result made of an exception has no error)
SingleTaskResultPlain(outcome) == [success |-> (outcome = "success")]

\* what _execute_single_task returns after a last executor call with this outcome:
\* the executor's result (lines 265, 276) or the result made of the exception
\* (line 286)
SingleTaskResult(outcome) ==
    IF outcome = "raise"
    THEN [success |-> FALSE, error |-> "exception"]
    ELSE [success |-> (outcome = "success")]

\* lines 271-273, 282-284: the seconds slept after failed attempt number attempt
Backoff(attempt) == 2 ^ attempt

\* lines 258-286: the executor call of attempt active[i].attempt ends.  A failed
\* attempt that is not the last sleeps and calls the executor again; a returned
\* _execute_single_task resumes _execute_sequential at once, or completes its
\* task for gather
Attempt(i, outcome) ==
    /\ i \in DOMAIN active
    /\ active[i].stage = "running"
    /\ IF outcome # "success" /\ active[i].attempt < EffectiveRetries
       THEN /\ active' = [active EXCEPT ![i].attempt = @ + 1,
                                         ![i].all_raised = @ /\ outcome = "raise"]
            /\ invocations' = [invocations EXCEPT ![i] = @ + 1]
            /\ sleeps' = [sleeps EXCEPT ![i] = Append(@, Backoff(active[i].attempt))]
            /\ UNCHANGED <<workflows, workflow, frame, returned>>
       ELSE /\ sleeps' = sleeps
            /\ IF frame.fn = "sequential"
               THEN SeqResult(i, SingleTaskResult(outcome))
               ELSE /\ active' = [active EXCEPT ![i].stage = "done",
                                                 ![i].all_raised = @ /\ outcome = "raise",
                                                 ![i].result = SingleTaskResult(outcome)]
                    /\ UNCHANGED <<workflows, workflow, frame, returned, invocations>>
    /\ UNCHANGED <<queue, wconfig, leveler>>

\* ------------------------------------------------------- _execute_adaptive
\* Python floats are IEEE 754 doubles.  The doubles of _analyze_workflow are
\* multiples of 2^-54 below 2^10; such a number is the sequence <<hi, mid, lo>> of
\* the three base-2^20 digits of its multiple
LimbBase == 2 ^ 20

\* line 345: the doubles nearest to 0.3 and 0.7; line 348: the double 0.5
Double03 == <<4915, 209715, 209715>>

Double07 == <<11468, 838860, 838860>>

Double05 == <<8192, 0, 0>>

DoubleZero == <<0, 0, 0>>

\* the exact sum of two multiples
LimbAdd(X, Y) ==
    LET lo == X[3] + Y[3]
        mid == X[2] + Y[2] + (lo \div LimbBase)
        hi == X[1] + Y[1] + (mid \div LimbBase)
    IN <<hi, mid % LimbBase, lo % LimbBase>>

\* the exact product of a multiple and a small integer
LimbMul(X, k) ==
    LET lo == X[3] * k
        mid == X[2] * k + (lo \div LimbBase)
        hi == X[1] * k + (mid \div LimbBase)
    IN <<hi, mid % LimbBase, lo % LimbBase>>

\* quotient and remainder of a multiple by a small integer
LimbDivMod(X, d) ==
    LET q1 == X[1] \div d
        t2 == (X[1] % d) * LimbBase + X[2]
        t3 == (t2 % d) * LimbBase + X[3]
    IN [q |-> <<q1, t2 \div d, t3 \div d>>, r |-> t3 % d]

LimbLess(X, Y) ==
    \/ X[1] < Y[1]
    \/ X[1] = Y[1] /\ X[2] < Y[2]
    \/ X[1] = Y[1] /\ X[2] = Y[2] /\ X[3] < Y[3]

\* the spacing of the doubles around X: a double has 53 significant bits, so the
\* spacing is 2^s when 2^(52+s) <= X < 2^(53+s)
UlpOf(X) ==
    LET s == CHOOSE e \in 0..10 : X[1] < 2 ^ (13 + e) /\ (e = 0 \/ X[1] >= 2 ^ (12 + e))
    IN 2 ^ s

\* round to nearest, ties to even
RoundToDouble(X) ==
    LET p == UlpOf(X)
        r == X[3] % p
        q == X[3] \div p
        down == <<X[1], X[2], X[3] - r>>
    IN IF 2 * r > p \/ (2 * r = p /\ q % 2 = 1)
       THEN LimbAdd(down, <<0, 0, p>>)
       ELSE down

\* float + float
DoubleAdd(X, Y) == RoundToDouble(LimbAdd(X, Y))

\* float / int, for a quotient between 0.25 and 1
DoubleDivInt(X, n) ==
    LET u == IF LimbLess(X, LimbMul(Double05, n)) THEN 1 ELSE 2
        d == n * u
        dm == LimbDivMod(X, d)
    IN IF 2 * dm.r > d \/ (2 * dm.r = d /\ dm.q[3] % 2 = 1)
       THEN LimbMul(LimbAdd(dm.q, <<0, 0, 1>>), u)
       ELSE LimbMul(dm.q, u)

\* line 345: 0.3 if len(desc.split()) <= 3 else 0.7
Complexity(t) == IF Len(t.description) <= 3 THEN Double03 ELSE Double07

\* line 348: sum(complexities), which adds the floats from left to right
RECURSIVE SumComplexities(_, _, _)
SumComplexities(ts, k, acc) ==
    IF k > Len(ts)
    THEN acc
    ELSE SumComplexities(ts, k + 1, DoubleAdd(acc, Complexity(ts[k])))

\* lines 336-354
_analyze_workflow(ts) ==
    [has_dependencies |-> \E t \in Range(ts) : t.dependencies # {},
     task_count |-> Len(ts),
     avg_task_complexity |->
        IF Len(ts) = 0
        THEN Double05
        ELSE DoubleDivInt(SumComplexities(ts, 1, DoubleZero), Len(ts))]

\* lines 231-245: the strategy function _execute_adaptive hands the workflow to
_execute_adaptive(ts) ==
    LET analysis == _analyze_workflow(ts)
    IN IF analysis.has_dependencies /\ LimbLess(Double07, analysis.avg_task_complexity)
       THEN "parallel"
       ELSE IF ~analysis.has_dependencies /\ Len(ts) > 5
            THEN "parallel"
            ELSE "sequential"

\* lines 82-88: the strategy function execute_workflow dispatches to
Dispatch(strategy, ts) ==
    IF strategy \in {"sequential", "parallel"} THEN strategy ELSE _execute_adaptive(ts)

\* lines 47-88: a caller calls execute_workflow (once in a behaviour)
execute_workflow(tasks_arg, strategy) ==
    /\ workflows = {}
    /\ returned = <<>>
    /\ workflow = <<>>
    /\ LET ts == _prepare_tasks(tasks_arg)
           inv == [x \in Range(Indices(ts)) |-> 0]
       IN IF Dispatch(strategy, ts) = "sequential"
          THEN SeqContinue(strategy, ts, <<>>, 1, <<>>, 0, 0, inv)
          ELSE ParContinue(strategy, ts, <<>>, _compute_dependency_levels(ts), 1, 0, <<>>,
                           0, 0, inv)
    /\ sleeps' = [x \in 0..(Len(tasks_arg) - 1) |-> <<>>]
    /\ UNCHANGED <<queue, wconfig, leveler>>

InitWorkflow ==
    /\ QueueIdle
    /\ wconfig \in WorkflowConfigs
    /\ workflows = {}
    /\ workflow = <<>>
    /\ frame = NoFrame
    /\ active = <<>>
    /\ returned = <<>>
    /\ invocations = <<>>
    /\ sleeps = <<>>
    /\ leveler = NoCall

\* the caller of execute_workflow, with any task list and strategy
CallWorkflow ==
    /\ workflow = <<>>
    /\ \E tasks_arg \in WorkflowTaskLists, strategy \in Strategies :
          execute_workflow(tasks_arg, strategy)

WorkflowNext ==
    \/ CallWorkflow
    \/ \E i \in 0..(MaxTasks - 1), outcome \in Outcomes : Attempt(i, outcome)
    \/ BatchDone

SpecWorkflow == InitWorkflow /\ [][WorkflowNext]_vars

\* ---------------------------------------------------- adaptive workflows
\* the task lists given to the adaptive strategy: n tasks, each with a description
\* of three or of four words, none with a dependency or the last one depending
\* on index 0
AdaptiveTaskLists(n) ==
    {[k \in 1..n |-> [description |-> Description(w[k]),
                      dependencies |-> IF k = n THEN D ELSE {}]] :
        w \in [1..n -> {3, 4}], D \in {{}, {0}}}

InitAdaptive ==
    /\ QueueIdle
    /\ wconfig \in {c \in WorkflowConfigs : c.max_parallel = MaxParallel /\ ~c.retry_failed}
    /\ workflows = {}
    /\ workflow = <<>>
    /\ frame = NoFrame
    /\ active = <<>>
    /\ returned = <<>>
    /\ invocations = <<>>
    /\ sleeps = <<>>
    /\ leveler = NoCall

\* the caller of execute_workflow with the default strategy, 'adaptive' (line 51)
CallAdaptive ==
    /\ workflow = <<>>
    /\ \E n \in 0..AdaptiveMaxTasks :
          \E tasks_arg \in AdaptiveTaskLists(n) : execute_workflow(tasks_arg, "adaptive")

AdaptiveNext ==
    \/ CallAdaptive
    \/ \E i \in 0..(AdaptiveMaxTasks - 1), outcome \in Outcomes : Attempt(i, outcome)
    \/ BatchDone

SpecAdaptive == InitAdaptive /\ [][AdaptiveNext]_vars

\* ====================================================================
\* Properties
\* ====================================================================
Stored == DOMAIN tasks

\* the ids with the given status
WithStatus(st) == {i \in Stored : T(i).status = st}

\* the number of entries e in the queue q
Count(q, e) == Cardinality({k \in 1..Len(q) : q[k] = e})

\* id has an entry in the ready queue
Queued(id) == \E k \in 1..Len(pending_queue) : pending_queue[k][2] = id

\* a unit of id is spawned or suspended in the executor
InFlight(id) == \E n \in DOMAIN execs : execs[n].id = id

\* process_queue is executing id: its future is a unit suspended in the executor
Executing(id) ==
    /\ id \in Stored
    /\ T(id).status = "RUNNING"
    /\ id \in DOMAIN task_futures
    /\ task_futures[id] \in DOMAIN execs
    /\ execs[task_futures[id]].stage \in {"executor"} \cup Settled

\* id's status is RUNNING after this step and was not before it
BecomesRunning(id) ==
    /\ id \in DOMAIN tasks'
    /\ objs'[id][tasks'[id]].status = "RUNNING"
    /\ ~(id \in Stored /\ T(id).status = "RUNNING")

\* C1: a task's status becomes RUNNING only in a step after which every id in
\* its dependencies names a stored task whose status is COMPLETED.
C1_DependencyGating ==
    [][\A id \in Ids :
          BecomesRunning(id) =>
             \A d \in objs'[id][tasks'[id]].dependencies :
                d \in DOMAIN tasks' /\ objs'[d][tasks'[d]].status = "COMPLETED"]_vars

\* C2: the number of RUNNING tasks, and the size of the running set, never
\* exceed max_concurrent.
C2_BoundedConcurrency ==
    /\ Cardinality(WithStatus("RUNNING")) <= max_concurrent
    /\ Cardinality(running_tasks) <= max_concurrent

\* C3: a task with max_retries = n whose executor has raised on every invocation
\* so far, at most n of them, is PENDING for its next invocation (so that a
\* success on invocation n + 1 can complete it), unless it was cancelled; and a
\* COMPLETED task has the number of raised invocations as its retry_count.
C3_RetryUntilSuccess ==
    \A id \in Stored :
       LET t == T(id)
       IN /\ (t.raised <= t.max_retries /\ t.invocations = t.raised /\ t.cancelled_at = {})
                => t.status = "PENDING"
          /\ t.status = "COMPLETED" => t.retry_count = t.raised

\* the step re-enqueues the object o of id: it is PENDING again and the queue
\* gained one entry, (its priority, id)
Requeued(id, o) ==
    /\ objs'[id][o].status = "PENDING"
    /\ Len(pending_queue') = Len(pending_queue) + 1
    /\ Count(pending_queue', <<objs[id][o].priority, id>>)
          = Count(pending_queue, <<objs[id][o].priority, id>>) + 1

\* a step in which an invocation of a task raised
C4_RetryStep ==
    \A id \in Ids : \A o \in DOMAIN objs[id] :
       LET t == objs[id][o]
           t2 == objs'[id][o]
           below == t2.retry_count < t2.max_retries
       IN t2.raised = t.raised + 1 =>
             /\ t2.retry_count = t.retry_count + 1
             /\ Requeued(id, o) \/ (t2.status = "FAILED" /\ pending_queue' = pending_queue)
             /\ Requeued(id, o) => below
             /\ (below /\ t.cancelled_at = {}) => Requeued(id, o)

C4_RetryInv ==
    \A id \in Stored :
       LET t == T(id)
       IN /\ t.invocations <= t.max_retries + 1
          /\ (t.status = "FAILED" /\ t.cancelled_at = {}) => t.retry_count >= t.max_retries
          /\ (t.raised >= 1 /\ t.retry_count >= t.max_retries) =>
                /\ t.status \in {"FAILED", "CANCELLED"}
                /\ ~Queued(id) /\ ~InFlight(id) /\ id \notin running_tasks

\* C4: when an invocation raises, retry_count grows by one and the task is reset
\* to PENDING and re-enqueued at its own priority only if the new retry_count is
\* below max_retries (and always then, unless the task was cancelled); otherwise
\* it is FAILED and the queue is untouched.  So a task is invoked at most
\* max_retries + 1 times, a FAILED task that was never cancelled has
\* retry_count >= max_retries, and a task that has used up its retries stays
\* FAILED (until cancel_task marks it CANCELLED), out of the queue and not run.
C4_RetryBound == []C4_RetryInv /\ [][C4_RetryStep]_vars

\* a task with max_retries = 2 raised twice and is FAILED
C4_Witness ==
    \E id \in Stored :
       /\ T(id).max_retries = 2 /\ T(id).raised = 2 /\ T(id).invocations = 2
       /\ T(id).status = "FAILED" /\ T(id).retry_count = 2

C5_TimeoutStep ==
    \A id \in Ids : \A o \in DOMAIN objs[id] :
       LET t == objs[id][o]
           t2 == objs'[id][o]
       IN /\ (t.status # "TIMEOUT" /\ t2.status = "TIMEOUT") =>
                /\ t2.retry_count = t.retry_count
                /\ id \notin running_tasks'
                /\ pending_queue' = pending_queue
          /\ t.status = "TIMEOUT" => (t2.status = "TIMEOUT" \/ cancel_task(id))

C5_TimeoutInv ==
    \A id \in Stored :
       T(id).status = "TIMEOUT" =>
          ~Queued(id) /\ ~InFlight(id) /\ id \notin running_tasks

\* C5: the step that makes a task's status TIMEOUT leaves its retry_count and the
\* ready queue unchanged and the id out of the running set; a TIMEOUT task has no
\* queue entry and no execution, and no step but a cancel_task call changes its
\* status, whatever its max_retries.
C5_TimeoutNeverRetried == []C5_TimeoutInv /\ [][C5_TimeoutStep]_vars

\* a task with a timeout and retries left timed out on its first invocation
C5_Witness ==
    \E id \in Stored :
       /\ T(id).timeout /\ T(id).max_retries = 2
       /\ T(id).status = "TIMEOUT" /\ T(id).retry_count = 0 /\ T(id).invocations = 1
       /\ pc = "idle"

\* C6: a task for which cancel_task returned True while it was PENDING never has
\* status RUNNING afterwards.
C6_CancelPending ==
    \A id \in Stored : "PENDING" \in T(id).cancelled_at => T(id).status # "RUNNING"

\* C7: cancel_task returns True for a task process_queue is executing, and a task
\* for which it returned True while RUNNING is CANCELLED from then on and out of
\* the running set.
C7_CancelRunning ==
    \A id \in Stored :
       /\ Executing(id) => CancelReturns(id)
       /\ "RUNNING" \in T(id).cancelled_at =>
             T(id).status = "CANCELLED" /\ id \notin running_tasks

\* C8: no step changes the status of a stored task that is COMPLETED or CANCELLED,
\* and cancel_task returns False for a COMPLETED task.
C8_TerminalStatuses ==
    /\ [](\A id \in Stored : T(id).status = "COMPLETED" => ~CancelReturns(id))
    /\ [][\A id \in Stored :
             (T(id).status \in {"COMPLETED", "CANCELLED"} /\ id \in DOMAIN tasks') =>
                objs'[id][tasks'[id]].status = T(id).status]_vars

\* C9: a task that lists as a dependency a task X for which cancel_task returned
\* True when X had not completed is PENDING (or CANCELLED by its own cancel_task
\* call), has no entry in the ready queue and no execution.
C9_NoCancellationPropagation ==
    \A x \in Stored, d \in Stored :
       (x \in T(d).dependencies /\ "INCOMPLETE" \in T(x).cancelled_at) =>
          /\ T(d).status \in {"PENDING", "CANCELLED"}
          /\ ~Queued(d) /\ ~InFlight(d) /\ d \notin running_tasks

\* C10: the step of add_task(t) leaves t stored under t.id with status PENDING,
\* and puts exactly the entry (t.priority, t.id) in the ready queue if every
\* dependency of t is in the completed set (always, when t has none), and leaves
\* the queue unchanged otherwise.
C10_ReadinessAtAdd ==
    [][\A id \in Ids :
          Len(objs'[id]) = Len(objs[id]) + 1 =>
             LET t == objs'[id][Len(objs'[id])]
                 e == <<t.priority, id>>
                 ready == t.dependencies \subseteq completed_tasks
                 put == /\ Len(pending_queue') = Len(pending_queue) + 1
                        /\ Count(pending_queue', e) = Count(pending_queue, e) + 1
             IN /\ id \in DOMAIN tasks' /\ objs'[id][tasks'[id]] = t
                /\ t.status = "PENDING"
                /\ IF ready THEN put ELSE pending_queue' = pending_queue
                /\ t.dependencies = {} => put]_vars

\* a task without dependencies waits in the queue, and a task that depends on it
\* is stored PENDING with no entry
C10_Witness ==
    \E a \in Stored, b \in Stored :
       /\ T(a).dependencies = {} /\ T(a).status = "PENDING" /\ T(a).invocations = 0
       /\ Queued(a)
       /\ T(b).dependencies = {a} /\ T(b).status = "PENDING" /\ ~Queued(b)

\* the PENDING tasks that list id as a dependency, after the step
PendingDependents(id) ==
    {d \in DOMAIN tasks' : /\ id \in objs'[d][tasks'[d]].dependencies
                           /\ objs'[d][tasks'[d]].status = "PENDING"}

\* C11: the step in which a task's status becomes COMPLETED adds its id to the
\* completed set, removes it from the running set, and puts one entry
\* (priority, id) in the ready queue for every PENDING task that lists it as a
\* dependency and has all its dependencies in the completed set, and no entry
\* for any other task.
C11_WakeUpOnCompletion ==
    [][\A id \in GraphIds : \A o \in DOMAIN objs[id] :
          (objs[id][o].status # "COMPLETED" /\ objs'[id][o].status = "COMPLETED") =>
             LET woken == {d \in PendingDependents(id) :
                             objs'[d][tasks'[d]].dependencies \subseteq completed_tasks'}
             IN /\ id \in completed_tasks' /\ id \notin completed_tasks
                /\ id \in running_tasks /\ id \notin running_tasks'
                /\ Len(pending_queue') = Len(pending_queue) + Cardinality(woken)
                /\ \A d \in woken :
                      Count(pending_queue', <<objs'[d][tasks'[d]].priority, d>>)
                         = Count(pending_queue, <<objs'[d][tasks'[d]].priority, d>>) + 1]_vars

\* a task completed while a dependent of it still waits for another dependency:
\* the dependent is PENDING and has no entry, and a task that depended on the
\* completed one alone is in the queue or beyond
C11_Witness ==
    \E a \in Stored, d \in Stored :
       /\ T(a).status = "COMPLETED" /\ a \in completed_tasks
       /\ a \in T(d).dependencies /\ Cardinality(T(d).dependencies) = 2
       /\ ~(T(d).dependencies \subseteq completed_tasks)
       /\ T(d).status = "PENDING" /\ ~Queued(d)

\* the string s sorts before the string t: at the first position where they
\* differ s has the smaller character, or s is a proper prefix of t
LexBefore(s, t) ==
    \E k \in 1..Len(t) :
       /\ k <= Len(s) + 1
       /\ \A j \in 1..(k - 1) : s[j] = t[j]
       /\ (k = Len(s) + 1 \/ s[k] < t[k])

\* the queue q without its k-th entry
Without(q, k) == [j \in 1..(Len(q) - 1) |-> IF j < k THEN q[j] ELSE q[j + 1]]

\* C12: a pop by the driver takes out of the ready queue one entry with the id
\* the driver then holds, and no entry of the queue has a smaller priority value,
\* or the same priority value and a task id that sorts before it as a string.
C12_ReadyQueueOrder ==
    [][(pc = "get" /\ pc' = "got") =>
          \E k \in 1..Len(pending_queue) :
             /\ pending_queue[k][2] = got'
             /\ pending_queue' = Without(pending_queue, k)
             /\ \A j \in 1..Len(pending_queue) :
                   /\ pending_queue[j][1] >= pending_queue[k][1]
                   /\ pending_queue[j][1] = pending_queue[k][1] =>
                         ~LexBefore(pending_queue[j][2], pending_queue[k][2])]_vars

\* the driver holds "10" while "2", of the same priority, is still in the queue,
\* and it holds a task of priority 2 only when no entry of priority 1 is left
C12_Witness ==
    /\ pc = "got"
    /\ got = <<1, 0>>
    /\ got \in Stored /\ <<2>> \in Stored
    /\ T(<<2>>).priority = T(got).priority
    /\ pending_queue = <<<<T(<<2>>).priority, <<2>>>>>>

\* a task that was started had all its dependencies completed, and once
\* process_queue has returned every task is COMPLETED and the statistics say so
C13_FullRunInv ==
    /\ \A id \in Stored :
          T(id).invocations >= 1 =>
             \A d \in T(id).dependencies :
                d \in Stored /\ T(d).status = "COMPLETED" /\ d \in completed_tasks
    /\ GraphReturned =>
          /\ \A id \in Stored : T(id).status = "COMPLETED" /\ T(id).invocations = 1
          /\ get_queue_stats.completed = Cardinality(Stored)
          /\ get_queue_stats.failed = 0
          /\ get_queue_stats.pending = 0
          /\ get_queue_stats.running = 0

\* C13: for tasks with distinct ids and acyclic dependencies that all name tasks
\* of the set, added in any order with any priorities and run with an executor
\* that always succeeds, every task starts only after all its dependencies
\* completed, process_queue returns, and when it has returned every task is
\* COMPLETED and get_queue_stats reports completed = the number of tasks and
\* failed = pending = running = 0.
C13_FullRun == []C13_FullRunInv /\ ((pc # "idle") ~> GraphReturned)

\* a chain of three tasks in which each dependent has a higher priority (a
\* smaller value) than its dependency has been run to the end
C13_Witness ==
    /\ GraphReturned
    /\ Stored = GraphIds
    /\ \E a \in Stored, b \in Stored, c \in Stored :
          /\ T(a).dependencies = {} /\ T(b).dependencies = {a} /\ T(c).dependencies = {a, b}
          /\ T(b).priority < T(a).priority
          /\ T(c).status = "COMPLETED"

\* C14: process_queue, once started, returns; and the step in which it returns
\* leaves the ready queue and the running set empty and no task RUNNING.
C14_DriverTermination ==
    /\ (pc # "idle") ~> (pc = "idle")
    /\ [][(pc # "idle" /\ pc' = "idle") =>
             /\ pending_queue' = <<>>
             /\ running_tasks' = {}
             /\ \A id \in DOMAIN tasks' : objs'[id][tasks'[id]].status # "RUNNING"]_vars

\* process_queue has returned leaving one task terminally FAILED after a retry
\* and another PENDING, blocked on it
C14_Witness ==
    /\ pc = "idle"
    /\ \E a \in Stored, b \in Stored :
          /\ T(a).status = "FAILED" /\ T(a).invocations = 2
          /\ T(b).status = "PENDING" /\ T(b).dependencies = {a} /\ ~Queued(b)

\* C15 -- snapshot after every mutation: with a persist path configured, when
\* add_task, execute_task (returning, timing out, failing or cancelled),
\* cancel_task or clear_completed has returned, the persisted document's tasks
\* and completed_tasks equal the in-memory task map (with each task's status and
\* retry_count) and the completed set.
Returns ==
    \/ NumAdds' > NumAdds
    \/ \E id \in Ids : cancel_task(id)
    \/ clear_completed
    \/ \E n \in DOMAIN execs :
          ExecSucceed(n) \/ ExecTimeout(n) \/ ExecFail(n) \/ ExecCancelled(n)

C15_SnapshotAfterMutation ==
    [][(persist_path /\ Returns) =>
          snapshot' = _persist_state(tasks', objs', completed_tasks')]_vars

\* ------------------------------------------------ dependency levels
IndexSet(ts) == Range(Indices(ts))

DepsOf(ts, x) == (CHOOSE t \in Range(ts) : t.index = x).dependencies

ListClosed(ts) == \A t \in Range(ts) : t.dependencies \subseteq IndexSet(ts)

\* x depends on y through at most n dependency edges
RECURSIVE ListReaches(_, _, _, _)
ListReaches(ts, x, y, n) ==
    /\ n > 0
    /\ \E d \in DepsOf(ts, x) \cap IndexSet(ts) : d = y \/ ListReaches(ts, d, y, n - 1)

ListAcyclic(ts) == \A x \in IndexSet(ts) : ~ListReaches(ts, x, x, Len(ts))

\* every index of the list is at exactly one place of the levels, and nothing else is
ExactlyOnce(ts, L) ==
    /\ \A k \in 1..Len(L) : Range(L[k]) \subseteq IndexSet(ts)
    /\ \A x \in IndexSet(ts) :
          Cardinality({p \in (1..Len(L)) \X (1..Len(ts)) :
                          p[2] <= Len(L[p[1]]) /\ L[p[1]][p[2]] = x}) = 1

\* the number of the level of x, counted from 0
LevelNo(L, x) == (CHOOSE k \in 1..Len(L) : x \in Range(L[k])) - 1

MaxOf(S) == CHOOSE m \in S : \A n \in S : n <= m

ScenarioB ==
    <<[index |-> 0, dependencies |-> {}], [index |-> 1, dependencies |-> {}],
      [index |-> 2, dependencies |-> {0, 1}], [index |-> 3, dependencies |-> {2}]>>

\* C16 -- leveling of an acyclic graph: for a task list with distinct indices whose
\* dependencies are acyclic and all name indices of the list,
\* _compute_dependency_levels returns non-empty levels, every index is in exactly
\* one of them, and the level number of a task is 0 if it has no dependencies and
\* otherwise 1 + the greatest level number of its dependencies;
\* [0:[], 1:[], 2:[0,1], 3:[2]] gives [[0,1],[2],[3]].
C16_AcyclicLeveling ==
    LET ts == leveler.tasks
        L == leveler.levels
    IN (leveler.returned /\ ListClosed(ts) /\ ListAcyclic(ts)) =>
          /\ \A k \in 1..Len(L) : L[k] # <<>>
          /\ ExactlyOnce(ts, L)
          /\ \A x \in IndexSet(ts) :
                LevelNo(L, x) = IF DepsOf(ts, x) = {} THEN 0
                                ELSE 1 + MaxOf({LevelNo(L, d) : d \in DepsOf(ts, x)})
          /\ ts = ScenarioB => L = <<<<0, 1>>, <<2>>, <<3>>>>

C16_Witness ==
    /\ leveler.returned
    /\ leveler.tasks = ScenarioB
    /\ leveler.levels = <<<<0, 1>>, <<2>>, <<3>>>>

\* C17 -- leveling fallback: for any task list with distinct indices (cycles,
\* self-dependencies and dependencies on absent indices included)
\* _compute_dependency_levels returns, after at most one pass per task, levels in
\* which every index is exactly once; a pass with qualifying tasks (unprocessed,
\* every dependency in an earlier level) gives exactly those as its level; the
\* first pass without one gives all still unprocessed tasks as its level, and
\* that level is the last.
C17_LevelingFallback ==
    LET ts == leveler.tasks
        L == leveler.levels
    IN leveler.returned =>
          /\ ExactlyOnce(ts, L)
          /\ Len(L) <= Len(ts)
          /\ \A k \in 1..Len(L) :
                LET earlier == UNION {Range(L[j]) : j \in 1..(k - 1)}
                    unplaced == IndexSet(ts) \ earlier
                    qualifying == {x \in unplaced : DepsOf(ts, x) \subseteq earlier}
                IN IF qualifying # {}
                   THEN Range(L[k]) = qualifying
                   ELSE Range(L[k]) = unplaced /\ k = Len(L)

\* the last of several levels is a fallback level of several tasks, one of them
\* depending on an absent index and one on itself
C17_Witness ==
    LET ts == leveler.tasks
        L == leveler.levels
    IN /\ leveler.returned
       /\ Len(L) > 1
       /\ Len(L[Len(L)]) > 1
       /\ \A x \in Range(L[Len(L)]) :
             ~(DepsOf(ts, x) \subseteq UNION {Range(L[j]) : j \in 1..(Len(L) - 1)})
       /\ \E x \in Range(L[Len(L)]) : x \in DepsOf(ts, x)
       /\ \E x \in Range(L[Len(L)]) : ~(DepsOf(ts, x) \subseteq IndexSet(ts))

\* ------------------------------------------------------- workflows
Sequential == workflow # <<>> /\ workflow.strategy = "sequential"

Parallel == workflow # <<>> /\ workflow.strategy = "parallel"

WorkflowIndices == IF workflow = <<>> THEN {} ELSE Range(Indices(workflow.tasks))

StatusMap == IF workflow = <<>> THEN <<>> ELSE workflow.status

WorkflowDeps(i) == DepsOf(workflow.tasks, i)

\* every dependency of task i has status COMPLETED in the status map st
DepsCompleted(i, st) ==
    \A d \in WorkflowDeps(i) : d \in DOMAIN st /\ st[d] = "COMPLETED"

HasStatus(st, v) == {i \in DOMAIN st : st[i] = v}

\* C18 -- sequential skipping: under the sequential strategy the tasks get their
\* status in list order; the task that gets one is invoked (and RUNNING) if every
\* one of its dependency indices is COMPLETED in the status map at that moment and
\* is marked SKIPPED otherwise; a SKIPPED task stays SKIPPED, is never invoked, has
\* no result and is counted neither in completed nor in failed.
C18_SkipInv ==
    Sequential =>
       /\ \A i \in DOMAIN StatusMap : \A j \in WorkflowIndices : j < i => j \in DOMAIN StatusMap
       /\ \A i \in WorkflowIndices : invocations[i] > 0 => DepsCompleted(i, StatusMap)
       /\ \A i \in HasStatus(StatusMap, "SKIPPED") :
             /\ invocations[i] = 0
             /\ frame.fn = "sequential" => i \notin DOMAIN frame.results
       /\ returned # <<>> =>
             /\ returned.completed = Cardinality(HasStatus(StatusMap, "COMPLETED"))
             /\ returned.failed = Cardinality(HasStatus(StatusMap, "FAILED"))
             /\ DOMAIN returned.results \cap HasStatus(StatusMap, "SKIPPED") = {}

C18_SkipStep ==
    Sequential' =>
       \A i \in WorkflowIndices' :
          /\ (i \notin DOMAIN StatusMap /\ i \in DOMAIN StatusMap') =>
                IF DepsCompleted(i, StatusMap)'
                THEN StatusMap'[i] = "RUNNING" /\ invocations'[i] = 1
                ELSE StatusMap'[i] = "SKIPPED" /\ invocations'[i] = 0
          /\ (i \in DOMAIN StatusMap /\ StatusMap[i] = "SKIPPED") => StatusMap'[i] = "SKIPPED"
          /\ (i \in DOMAIN invocations /\ invocations'[i] > invocations[i]) =>
                DepsCompleted(i, StatusMap)'

C18_SequentialSkipping == []C18_SkipInv /\ [][C18_SkipStep]_vars

\* a returned workflow whose second task depended on the first, COMPLETED, and on
\* the third, not yet considered, and was skipped; the third was executed
C18_Witness ==
    /\ Sequential
    /\ returned # <<>>
    /\ Len(workflow.tasks) = 3
    /\ WorkflowDeps(1) = {0, 2}
    /\ StatusMap = (0 :> "COMPLETED" @@ 1 :> "SKIPPED" @@ 2 :> "COMPLETED")
    /\ returned.completed = 2
    /\ returned.failed = 0

\* C19 -- sequential stop on failure: under the sequential strategy a task becomes
\* FAILED only when all its attempts are used; with continue_on_failure unset the
\* step in which the first task becomes FAILED returns the workflow with failed
\* count 1, gives no other task a status and invokes nothing, so no later task is
\* executed or has a status; with the flag set every task of the list has a status
\* when the workflow returns.
C19_StopInv ==
    Sequential =>
       /\ \A i \in HasStatus(StatusMap, "FAILED") : invocations[i] = EffectiveRetries + 1
       /\ (returned # <<>> /\ ~wconfig.continue_on_failure) =>
             /\ returned.failed <= 1
             /\ returned.failed = 0 => DOMAIN StatusMap = WorkflowIndices
             /\ \A f \in HasStatus(StatusMap, "FAILED") :
                   /\ returned.failed = 1
                   /\ \A j \in WorkflowIndices :
                         j > f => j \notin DOMAIN StatusMap /\ invocations[j] = 0
       /\ (returned # <<>> /\ wconfig.continue_on_failure) =>
             /\ DOMAIN StatusMap = WorkflowIndices
             /\ returned.failed = Cardinality(HasStatus(StatusMap, "FAILED"))

C19_StopStep ==
    (Sequential /\ ~wconfig.continue_on_failure) =>
       \A i \in DOMAIN StatusMap :
          (StatusMap[i] = "RUNNING" /\ StatusMap'[i] = "FAILED") =>
             /\ returned' # <<>>
             /\ returned'.failed = 1
             /\ DOMAIN StatusMap' = DOMAIN StatusMap
             /\ invocations' = invocations

C19_SequentialStopOnFailure == []C19_StopInv /\ [][C19_StopStep]_vars

\* the second of three tasks failed in its last attempt, the flag unset: the
\* workflow has returned, and the third task, without dependencies, has no status
C19_Witness ==
    /\ Sequential
    /\ ~wconfig.continue_on_failure
    /\ returned # <<>>
    /\ Len(workflow.tasks) = 3
    /\ WorkflowDeps(2) = {}
    /\ StatusMap = (0 :> "COMPLETED" @@ 1 :> "FAILED")
    /\ invocations = (0 :> 1 @@ 1 :> 2 @@ 2 :> 0)
    /\ returned.failed = 1
    /\ returned.completed = 1

\* C20 -- bounded parallelism in a workflow: under the parallel strategy at most
\* max_parallel executions of tasks of the workflow are in flight, all of them are
\* among max_parallel consecutive tasks of one level (one batch), and a step that
\* puts executions in flight finds none in flight and leaves every task of the
\* earlier batches and levels COMPLETED or FAILED.
InFlightTasks == {i \in DOMAIN active : active[i].stage = "running"}

\* the tasks of the levels before frame.level and of the batches before frame.i
EarlierTasks ==
    UNION {Range(frame.levels[l]) : l \in 1..(frame.level - 1)}
       \cup {frame.levels[frame.level][k] : k \in 1..frame.i}

C20_ParallelInv ==
    (Parallel /\ frame.fn = "parallel") =>
       /\ Cardinality(InFlightTasks) <= wconfig.max_parallel
       /\ frame.level \in 1..Len(frame.levels)
       /\ frame.i % wconfig.max_parallel = 0
       /\ \A x \in InFlightTasks :
             \E k \in (frame.i + 1)..(frame.i + wconfig.max_parallel) :
                k <= Len(frame.levels[frame.level]) /\ frame.levels[frame.level][k] = x
       /\ \A x \in EarlierTasks :
             x \in DOMAIN StatusMap /\ StatusMap[x] \in {"COMPLETED", "FAILED"}

C20_ParallelStep ==
    Parallel' =>
       ((\E x \in InFlightTasks' : x \notin InFlightTasks) =>
           /\ InFlightTasks = {}
           /\ \A x \in DOMAIN active :
                 x \in DOMAIN StatusMap' /\ StatusMap'[x] \in {"COMPLETED", "FAILED"})

C20_BoundedParallelism == []C20_ParallelInv /\ [][C20_ParallelStep]_vars

\* max_parallel 2 and a level of three tasks: the first batch of two has its
\* outcomes, one of each kind, and the second batch, the third task, is in flight
C20_Witness ==
    /\ Parallel
    /\ frame.fn = "parallel"
    /\ wconfig.max_parallel = 2
    /\ frame.levels = <<<<0, 1, 2>>>>
    /\ frame.i = 2
    /\ InFlightTasks = {2}
    /\ StatusMap = (0 :> "COMPLETED" @@ 1 :> "FAILED")

\* one call and the retries the configuration allows
MaxCalls == 1 + (IF wconfig.retry_failed THEN wconfig.max_retries ELSE 0)

\* C21 -- parallel never skips: under the parallel strategy a task gets an
\* _execute_single_task call only while it has no status and no executor call yet,
\* a status once set is COMPLETED or FAILED and never changes, and when
\* execute_workflow has returned every task of the workflow has such a status and
\* between one and max_retries + 1 executor calls, whatever the outcome of its
\* dependencies and batch siblings, and completed + failed is the number of tasks.
C21_NoSkipInv ==
    Parallel =>
       /\ \A i \in DOMAIN StatusMap : StatusMap[i] \in {"COMPLETED", "FAILED"}
       /\ returned # <<>> =>
             /\ DOMAIN StatusMap = WorkflowIndices
             /\ returned.completed + returned.failed = Len(workflow.tasks)
             /\ \A i \in WorkflowIndices : invocations[i] \in 1..MaxCalls

C21_NoSkipStep ==
    (Parallel /\ Parallel') =>
       /\ \A i \in DOMAIN active' \ DOMAIN active :
             i \notin DOMAIN StatusMap /\ invocations[i] = 0
       /\ \A i \in DOMAIN StatusMap :
             i \in DOMAIN StatusMap' /\ StatusMap'[i] = StatusMap[i]

C21_ParallelNeverSkips == []C21_NoSkipInv /\ [][C21_NoSkipStep]_vars

\* a returned parallel workflow of three tasks: task 0 FAILED, task 1, which
\* depends on it, COMPLETED, and task 2, a batch sibling of task 0, COMPLETED
C21_Witness ==
    /\ Parallel
    /\ returned # <<>>
    /\ Len(workflow.tasks) = 3
    /\ WorkflowDeps(1) = {0} /\ WorkflowDeps(0) = {} /\ WorkflowDeps(2) = {}
    /\ wconfig.max_parallel = 2
    /\ StatusMap = (0 :> "FAILED" @@ 1 :> "COMPLETED" @@ 2 :> "COMPLETED")
    /\ returned.completed = 2 /\ returned.failed = 1

\* the waits 2^0, 2^1, ... that n failed attempts with a next attempt make
BackoffSequence(n) == [k \in 1..n |-> 2 ^ (k - 1)]

\* C23 (as amended) -- workflow per-task retry: for each workflow task the executor
\* is invoked at most max_retries + 1 times (one call and up to max_retries
\* retries; a single time when retry_failed is off); no call follows a result with
\* success = true or a recorded outcome; and the waits made for the task are 2^0,
\* 2^1, ... seconds, one between each failed attempt and the next attempt and
\* none after the last attempt.
C23_RetryInv ==
    \A i \in DOMAIN invocations :
       /\ invocations[i] <= MaxCalls
       /\ sleeps[i] = BackoffSequence(Len(sleeps[i]))
       /\ Len(sleeps[i]) = IF invocations[i] = 0 THEN 0 ELSE invocations[i] - 1

C23_RetryStep ==
    \A i \in DOMAIN invocations :
       /\ (i \in DOMAIN active /\ Attempt(i, "success")) =>
             invocations'[i] = invocations[i] /\ sleeps'[i] = sleeps[i]
       /\ (i \in DOMAIN invocations' /\ invocations'[i] > invocations[i]) =>
             /\ i \in DOMAIN StatusMap => StatusMap[i] = "RUNNING"
             /\ i \in DOMAIN active => active[i].stage = "running"
             /\ invocations'[i] = invocations[i] + 1
             /\ invocations[i] > 0 =>
                   sleeps'[i] = Append(sleeps[i], 2 ^ (invocations[i] - 1))

Results == IF returned # <<>> THEN returned.results ELSE frame.results

FailedCount == IF returned # <<>> THEN returned.failed ELSE frame.failed

ErrorResult == [success |-> FALSE, error |-> "exception"]

\* the _execute_single_task call of task i ends with this step
CallEnds(i) == ~(i \in DOMAIN active' /\ active'[i].stage = "running")

\* C24 -- no exception escapes a workflow: whatever the executor does on each
\* attempt (success result, success = false result, exception) under either
\* strategy, a workflow that is no longer running has returned a result object
\* with a boolean success; the _execute_single_task call of a task whose every
\* attempt raised ends with the result {success: false, error}, the task is
\* FAILED and counted in failed, and a results entry with an error belongs to a
\* FAILED task.
C24_NoEscapeInv ==
    /\ (workflow # <<>> /\ workflows = {}) =>
          /\ returned # <<>>
          /\ returned.success \in BOOLEAN
          /\ returned.completed \in Nat /\ returned.failed \in Nat
    /\ workflow # <<>> =>
          \A i \in DOMAIN Results :
             /\ Results[i].success \in BOOLEAN
             /\ "error" \in DOMAIN Results[i] =>
                   Results[i] = ErrorResult /\ StatusMap[i] = "FAILED"

C24_NoEscapeStep ==
    /\ \A i \in InFlightTasks :
          (active[i].all_raised /\ Attempt(i, "raise") /\ CallEnds(i)) =>
             IF frame.fn = "sequential"
             THEN /\ StatusMap'[i] = "FAILED"
                  /\ FailedCount' = frame.failed + 1
                  /\ i \in DOMAIN Results' => Results'[i] = ErrorResult
             ELSE active'[i].result = ErrorResult
    /\ BatchDone =>
          /\ \A i \in DOMAIN active :
                /\ Results'[i] = active[i].result
                /\ ~active[i].result.success => StatusMap'[i] = "FAILED"
          /\ FailedCount' =
                frame.failed + Cardinality({i \in DOMAIN active : ~active[i].result.success})

C24_NoExceptionEscapes == []C24_NoEscapeInv /\ [][C24_NoEscapeStep]_vars

\* a returned workflow of two tasks: every attempt of task 0 raised, it is FAILED
\* with the structured result, and task 1 is COMPLETED
C24_Witness ==
    /\ returned # <<>>
    /\ Len(workflow.tasks) = 2
    /\ wconfig.retry_failed
    /\ invocations[0] = MaxCalls
    /\ StatusMap = (0 :> "FAILED" @@ 1 :> "COMPLETED")
    /\ returned.results = (0 :> ErrorResult @@ 1 :> [success |-> TRUE])
    /\ returned.success = FALSE /\ returned.failed = 1

\* C25 -- workflow success formula: in the object execute_workflow returns,
\* completed and failed are the numbers of tasks whose final status is COMPLETED
\* and FAILED, and success is true exactly when at least one task is COMPLETED and
\* none is FAILED; so an empty workflow and a workflow whose every task is SKIPPED
\* return success = false with completed = 0.
C25_SuccessFormula ==
    returned # <<>> =>
       LET nc == Cardinality(HasStatus(StatusMap, "COMPLETED"))
           nf == Cardinality(HasStatus(StatusMap, "FAILED"))
       IN /\ returned.completed = nc
          /\ returned.failed = nf
          /\ returned.success = (nc > 0 /\ nf = 0)
          /\ (\A i \in WorkflowIndices : i \in DOMAIN StatusMap /\ StatusMap[i] = "SKIPPED") =>
                (returned.success = FALSE /\ returned.completed = 0)

\* a returned workflow of two tasks that depend on each other: both are SKIPPED,
\* nothing failed, and success is false
C25_Witness ==
    /\ returned # <<>>
    /\ Len(workflow.tasks) = 2
    /\ StatusMap = (0 :> "SKIPPED" @@ 1 :> "SKIPPED")
    /\ returned.failed = 0 /\ returned.completed = 0
    /\ returned.success = FALSE

\* C26 -- results cover executed tasks: in the object execute_workflow returns,
\* results has an entry for exactly the tasks whose final status is COMPLETED or
\* FAILED, the failed task that stops a sequential workflow included, so the
\* number of entries is completed + failed.
C26_ResultsCoverExecuted ==
    returned # <<>> =>
       /\ DOMAIN returned.results =
             HasStatus(StatusMap, "COMPLETED") \cup HasStatus(StatusMap, "FAILED")
       /\ Cardinality(DOMAIN returned.results) = returned.completed + returned.failed

\* the executor calls made for task i so far, in a state with or without a workflow
CallsOf(inv, i) == IF i \in DOMAIN inv THEN inv[i] ELSE 0

\* C27 -- parallel respects dependencies in time: under the parallel strategy,
\* when the dependencies of the task specs are acyclic and all name indices of the
\* workflow, every step that calls the executor for a task finds each dependency
\* of the task with no _execute_single_task call in flight and with its status
\* (COMPLETED or FAILED) and its result recorded.
C27_ParallelDependencyOrder ==
    [][(Parallel' /\ ListClosed(workflow'.tasks) /\ ListAcyclic(workflow'.tasks)) =>
          \A i \in DOMAIN invocations' :
             invocations'[i] > CallsOf(invocations, i) =>
                \A d \in DepsOf(workflow'.tasks, i) :
                   /\ d \notin DOMAIN active'
                   /\ d \in DOMAIN StatusMap'
                   /\ StatusMap'[d] \in {"COMPLETED", "FAILED"}
                   /\ d \in DOMAIN Results']_vars

\* a chain of three tasks under max_parallel 2: task 2, which depends on tasks 0
\* and 1, is in its second executor call after both have their outcomes recorded
C27_Witness ==
    /\ Parallel
    /\ wconfig.max_parallel = 2
    /\ Len(workflow.tasks) = 3
    /\ WorkflowDeps(0) = {} /\ WorkflowDeps(1) = {0} /\ WorkflowDeps(2) = {0, 1}
    /\ InFlightTasks = {2}
    /\ invocations[2] = 2
    /\ StatusMap = (0 :> "COMPLETED" @@ 1 :> "FAILED")
    /\ DOMAIN frame.results = {0, 1}

Adaptive == workflow # <<>> /\ workflow.strategy = "adaptive"

\* C22 -- adaptive strategy selection: a workflow given to the adaptive strategy
\* is run by the parallel strategy when some task has a non-empty dependency list
\* and every description is longer than three words, and when no task has a
\* dependency and there are more than five tasks; otherwise it is run by the
\* sequential strategy.
C22_AdaptiveSelection ==
    Adaptive =>
       LET ts == workflow.tasks
           has_deps == \E t \in Range(ts) : t.dependencies # {}
           all_long == \A t \in Range(ts) : Len(t.description) > 3
       IN workflow.run_by =
             IF has_deps /\ all_long
             THEN "parallel"
             ELSE IF ~has_deps /\ Len(ts) > 5 THEN "parallel" ELSE "sequential"

\* C28 -- the dependency index is the reverse of the stored dependencies: in
\* every reachable state of the queue, id t is in dependents[d] if and only if the
\* task map holds a task t whose dependency list contains d.
C28_ReverseIndex ==
    \A d \in GraphIds, t \in GraphIds :
       t \in dependents[d] <=> (t \in DOMAIN tasks /\ d \in T(t).dependencies)

\* C30 -- restart keeps ready tasks runnable: when a queue has been constructed
\* from the snapshot an earlier instance wrote, every restored task with status
\* PENDING whose dependencies are all in the restored completed set is in the
\* ready queue (so that a following process_queue run executes it).
C30_RestartKeepsReady ==
    [][Restart =>
          \A id \in DOMAIN tasks' :
             (/\ objs'[id][tasks'[id]].status = "PENDING"
              /\ objs'[id][tasks'[id]].dependencies \subseteq completed_tasks') =>
                \E k \in 1..Len(pending_queue') : pending_queue'[k][2] = id]_vars

\* the execute_task units of id that have called the executor and have not ended
ExecutionsInFlight(id) ==
    {n \in DOMAIN execs : execs[n].id = id /\ execs[n].stage \in {"executor"} \cup Settled}

\* C29 -- at most one execution per task at a time: under one process_queue
\* driver, with ids that may be added again, retries and an on_task_complete
\* callback that suspends, no id has two executions in flight at once, and a
\* Task that is COMPLETED is not given to the executor again and does not become
\* FAILED.
C29_OneInFlight == \A id \in GraphIds : Cardinality(ExecutionsInFlight(id)) <= 1

C29_CompletedStays ==
    \A id \in GraphIds : \A k \in 1..Len(objs[id]) :
       objs[id][k].status = "COMPLETED" =>
          /\ objs'[id][k].status # "FAILED"
          /\ objs'[id][k].invocations = objs[id][k].invocations

C29_OneExecutionAtATime == []C29_OneInFlight /\ [][C29_CompletedStays]_vars
====
